---- MODULE Spec2Model ----
(***************************************************************************)
(* A model of the two data-format engines of mirror-upload:                *)
(*   - the template engine of src/template.rs (TemplateParser, Template),  *)
(*   - the multipart encoder of src/requests/multipart.rs (Form, quote).   *)
(* Strings are sequences of Unicode code points (Rust `char`s); byte       *)
(* buffers are sequences of integers 0..255.                               *)
(***************************************************************************)
EXTENDS Integers, Sequences, FiniteSets, TLC

VARIABLES
    parser,      \* the TemplateParser and the locals of its parse() call
    template,    \* what Template::parse returned: None until it returns
    lookup,      \* the resolver closure handed to the last Template::resolve
    resolved,    \* what the last Template::resolve returned: None before
    lookup_calls,\* the names the resolver closure was called with, in order
    fields,      \* Form.fields
    boundary,    \* Form.boundary
    body,        \* what the last Form::bytes returned: None before
    body_fields, \* the number of fields the form had at that Form::bytes call
    header,      \* what the last Form::content_type returned: None before
    added,       \* the arguments of the Form::text / Form::file calls so far
    quote_in,    \* the argument of the quote call under test
    quote_out,   \* what quote returned for it: None before the call
    error_type,  \* the type of the error under wrapping: ParseError or MuError
    origin,      \* the error before any and_then
    error,       \* the error after the and_then calls so far
    contexts     \* the messages of the and_then calls so far, in call order

template_vars == <<parser, template, lookup, resolved, lookup_calls>>
form_vars == <<fields, boundary, body, body_fields, header, added>>
quote_vars == <<quote_in, quote_out>>
error_vars == <<error_type, origin, error, contexts>>
vars == <<template_vars, form_vars, quote_vars, error_vars>>

(***************************************************************************)
(* Bounds of the model.                                                    *)
(***************************************************************************)
\* longest template enumerated exhaustively over Alphabet
MaxLen == 4
\* longest whitespace run inside the brackets of the structured templates
MaxWs == 2
\* longest variable name of the structured templates
MaxName == 2

(***************************************************************************)
(* Rust's Option and Result.                                               *)
(***************************************************************************)
None == <<>>
Some(x) == <<x>>
Ok(v) == [ok |-> TRUE, val |-> v]
Err(e) == [ok |-> FALSE, err |-> e]

(***************************************************************************)
(* Characters.                                                             *)
(***************************************************************************)
Backslash == 92
Dollar == 36
LBrace == 123
RBrace == 125
Underscore == 95
Dot == 46

\* char::len_utf8
len_utf8(c) ==
    IF c < 128 THEN 1 ELSE IF c < 2048 THEN 2 ELSE IF c < 65536 THEN 3 ELSE 4

\* char::is_whitespace: the code points with the White_Space property
is_whitespace(c) ==
    \/ c \in 9..13
    \/ c \in {32, 133, 160, 5760, 8232, 8233, 8239, 8287, 12288}
    \/ c \in 8192..8202

\* is_valid_variable_char without the dot
is_valid_variable_char_no_dot(c) ==
    \/ c \in 48..57 \/ c \in 65..90 \/ c \in 97..122
    \/ c = Underscore

is_valid_variable_char(c) ==
    \/ c \in 48..57 \/ c \in 65..90 \/ c \in 97..122
    \/ c = Underscore
    \/ c = Dot

\* the characters templates are enumerated over:
\* backslash, dollar, both brackets, space, 'a', '.', and the two-byte U+00E9
Alphabet == {Backslash, Dollar, LBrace, RBrace, 32, 97, Dot, 233}

RECURSIVE StringsUpTo(_, _)
StringsUpTo(S, n) ==
    IF n = 0 THEN {<<>>}
    ELSE LET shorter == StringsUpTo(S, n - 1)
         IN shorter \cup {Append(s, c) : s \in {t \in shorter : Len(t) = n - 1}, c \in S}

\* whitespace runs (space, the three-byte U+3000) and names of the
\* structured templates "${" w1 n w2 "}" and "$" n
WsRuns == StringsUpTo({32, 12288}, MaxWs)
Names == StringsUpTo({97, Dot}, MaxName) \ {<<>>}
BracedForm(w1, n, w2) == <<Dollar, LBrace>> \o w1 \o n \o w2 \o <<RBrace>>
BareForm(n) == <<Dollar>> \o n

Inputs ==
    StringsUpTo(Alphabet, MaxLen)
        \cup {BracedForm(w1, n, w2) : w1 \in WsRuns, n \in Names, w2 \in WsRuns}
        \cup {BareForm(n) : n \in Names}

(***************************************************************************)
(* ParseError and the parser's primitives.                                 *)
(***************************************************************************)
\* an error message: a format string and the strings formatted into it
Msg(fmt) == [fmt |-> fmt, args |-> <<>>]
MsgWith(fmt, arg) == [fmt |-> fmt, args |-> <<arg>>]

Text(content) == [kind |-> "Text", content |-> content]
Variable(name) == [kind |-> "Variable", content |-> name]

new(input) ==
    [input |-> input, cursor |-> 0, byte_offset |-> 0,
     pc |-> "main", result |-> <<>>, buffer |-> <<>>,
     start |-> 0, var_name_start |-> 0, var_name |-> <<>>,
     ret |-> None]

has_next(p) == p.cursor < Len(p.input)

span_from(p, start_offset) ==
    [start |-> start_offset, length |-> p.byte_offset - start_offset]

parse_error(p, msg, start_offset) ==
    [msg |-> msg, src |-> p.input, span |-> span_from(p, start_offset), cause |-> None]

\* ParseError::and_then with the cause taken over from the wrapped error
and_then_skipping(e, msg) ==
    [msg |-> msg, src |-> e.src, span |-> e.span, cause |-> e.cause]

and_then(e, msg) ==
    [msg |-> msg, src |-> e.src, span |-> e.span, cause |-> Some(e)]

with_span(e, span) == [e EXCEPT !.span = span]

peek(p) ==
    IF p.cursor < Len(p.input)
    THEN Ok(p.input[p.cursor + 1])
    ELSE Err(parse_error(p, Msg("Cannot peek: reached end of text"), p.byte_offset))

\* next with the byte offset advanced by one for every character
next_counting_chars(p) ==
    IF p.cursor < Len(p.input)
    THEN [res |-> Ok(p.input[p.cursor + 1]),
          p |-> [p EXCEPT !.cursor = @ + 1, !.byte_offset = @ + 1]]
    ELSE [res |-> Err(parse_error(p, Msg("Cannot read: reached end of text"),
                                  p.byte_offset)),
          p |-> p]

\* next returns its result and the parser it leaves behind
next(p) ==
    IF p.cursor < Len(p.input)
    THEN LET c == p.input[p.cursor + 1]
         IN [res |-> Ok(c),
             p |-> [p EXCEPT !.cursor = @ + 1, !.byte_offset = @ + len_utf8(c)]]
    ELSE [res |-> Err(parse_error(p, Msg("Cannot read: reached end of text"),
                                  p.byte_offset)),
          p |-> p]

\* parse_escape with the backslash of an unrecognised escape dropped
parse_escape_dropping(p) ==
    LET n == next(p)
    IN IF ~n.res.ok
       THEN [res |-> Err(and_then(n.res.err, Msg("Could not read escape"))), p |-> n.p]
       ELSE [res |-> Ok(<<n.res.val>>), p |-> n.p]

parse_escape(p) ==
    LET n == next(p)
    IN IF ~n.res.ok
       THEN [res |-> Err(and_then(n.res.err, Msg("Could not read escape"))), p |-> n.p]
       ELSE LET c == n.res.val
            IN [res |-> Ok(IF c = Backslash THEN <<Backslash>>
                           ELSE IF c = Dollar THEN <<Dollar>>
                           ELSE <<Backslash, c>>),
                p |-> n.p]

\* parse() returns r: the parser stops
return(p, r) == [p EXCEPT !.pc = IF r.ok THEN "done" ELSE "failed", !.ret = Some(r)]

\* push_variable without the push: the variable is parsed and left out
push_variable_dropped(p) == [p EXCEPT !.pc = "main"]

\* result.push(self.parse_variable()?) once parse_variable has its name
push_variable(p) ==
    [p EXCEPT !.result = Append(@, Variable(p.var_name)), !.pc = "main"]

\* parse_variable with start taken after the character after '$' is read
parse_variable_late_start(p) ==
    LET n == next(p)
        start == n.p.byte_offset
    IN IF ~n.res.ok THEN return(n.p, n.res)
       ELSE IF n.res.val = LBrace
       THEN [n.p EXCEPT !.start = start, !.pc = "leading_ws"]
       ELSE IF is_valid_variable_char(n.res.val)
       THEN [n.p EXCEPT !.start = start, !.var_name = <<n.res.val>>, !.pc = "bare_name"]
       ELSE return(n.p, Err(parse_error(n.p,
                MsgWith("Expected variable name or curly brackets after $, found {}",
                        <<n.res.val>>),
                start)))

\* parse_variable up to the point where it has read the character after '$'
parse_variable(p) ==
    LET start == p.byte_offset
        n == next(p)
    IN IF ~n.res.ok THEN return(n.p, n.res)
       ELSE IF n.res.val = LBrace
       THEN [n.p EXCEPT !.start = start, !.pc = "leading_ws"]
       ELSE IF is_valid_variable_char(n.res.val)
       THEN [n.p EXCEPT !.start = start, !.var_name = <<n.res.val>>, !.pc = "bare_name"]
       ELSE return(n.p, Err(parse_error(n.p,
                MsgWith("Expected variable name or curly brackets after $, found {}",
                        <<n.res.val>>),
                start)))

\* parse_loop_body with the buffer flushed at every '$', empty or not
parse_loop_body_flushing_empty(p) ==
    LET n == next(p)
    IN IF ~n.res.ok THEN return(n.p, n.res)
       ELSE IF n.res.val = Backslash
       THEN LET e == parse_escape(n.p)
            IN IF ~e.res.ok THEN return(e.p, e.res)
               ELSE [e.p EXCEPT !.buffer = @ \o e.res.val]
       ELSE IF n.res.val = Dollar
       THEN parse_variable([n.p EXCEPT !.result = Append(@, Text(n.p.buffer)),
                                       !.buffer = <<>>])
       ELSE [n.p EXCEPT !.buffer = Append(@, n.res.val)]

\* one iteration of the loop of parse(): lines 72-86
parse_loop_body(p) ==
    LET n == next(p)
    IN IF ~n.res.ok THEN return(n.p, n.res)
       ELSE IF n.res.val = Backslash
       THEN LET e == parse_escape(n.p)
            IN IF ~e.res.ok THEN return(e.p, e.res)
               ELSE [e.p EXCEPT !.buffer = @ \o e.res.val]
       ELSE IF n.res.val = Dollar
       THEN LET flushed == IF n.p.buffer # <<>>
                           THEN [n.p EXCEPT !.result = Append(@, Text(n.p.buffer)),
                                            !.buffer = <<>>]
                           ELSE n.p
            IN parse_variable(flushed)
       ELSE [n.p EXCEPT !.buffer = Append(@, n.res.val)]

\* parse_end without the flush of the trailing buffer
parse_end_unflushed(p) == return(p, Ok(p.result))

\* the loop of parse() has ended: lines 89-93
parse_end(p) ==
    LET result == IF p.buffer # <<>> THEN Append(p.result, Text(p.buffer)) ELSE p.result
    IN return([p EXCEPT !.result = result], Ok(result))

\* whether the loop of parse_variable_name runs once more: lines 164-167
name_loop_continues(p) == peek(p).ok /\ is_valid_variable_char(peek(p).val)

\* one iteration of the loop of parse_variable_name: lines 169-170
parse_variable_name_body(p) ==
    LET pushed == [p EXCEPT !.var_name = Append(@, peek(p).val)]
        n == next(pushed)
    IN IF ~n.res.ok THEN return(n.p, n.res) ELSE n.p

\* the bare name: parse_variable_name, then Ok(Variable(var_name))
bare_name_step(p) ==
    IF name_loop_continues(p) THEN parse_variable_name_body(p) ELSE push_variable(p)

\* leading_ws_step with the whitespace looked at and never consumed
leading_ws_step_unconsumed(p) ==
    LET c == peek(p)
    IN IF ~c.ok THEN return(p, c)
       ELSE IF is_whitespace(c.val) THEN p
       ELSE [p EXCEPT !.var_name_start = p.byte_offset, !.var_name = <<>>,
                      !.pc = "brace_name"]

\* leading_ws_step with var_name_start taken before the loop, right after
\* the opening bracket
leading_ws_step_early_start(p) ==
    LET c == peek(p)
    IN IF ~c.ok THEN return(p, c)
       ELSE IF is_whitespace(c.val)
       THEN LET n == next(p) IN IF ~n.res.ok THEN return(n.p, n.res) ELSE n.p
       ELSE [p EXCEPT !.var_name_start = p.start + 1, !.var_name = <<>>,
                      !.pc = "brace_name"]

\* the loop that consumes the leading whitespace, then lines 181-182
leading_ws_step(p) ==
    LET c == peek(p)
    IN IF ~c.ok THEN return(p, c)
       ELSE IF is_whitespace(c.val)
       THEN LET n == next(p) IN IF ~n.res.ok THEN return(n.p, n.res) ELSE n.p
       ELSE [p EXCEPT !.var_name_start = p.byte_offset, !.var_name = <<>>,
                      !.pc = "brace_name"]

\* the name inside brackets: parse_variable_name, then lines 185-187
brace_name_step(p) ==
    IF name_loop_continues(p) THEN parse_variable_name_body(p)
    ELSE IF p.var_name = <<>>
    THEN return(p, Err(parse_error(p, Msg("No variable name found inside brackets"),
                                   p.var_name_start)))
    ELSE [p EXCEPT !.pc = "trailing_ws"]

\* trailing_ws_step with the loop left out
trailing_ws_step_skipped(p) == [p EXCEPT !.pc = "close"]

\* the loop that consumes the trailing whitespace: lines 189-191
trailing_ws_step(p) ==
    IF has_next(p)
    THEN LET c == peek(p)
         IN IF ~c.ok THEN return(p, c)
            ELSE IF is_whitespace(c.val)
            THEN LET n == next(p) IN IF ~n.res.ok THEN return(n.p, n.res) ELSE n.p
            ELSE [p EXCEPT !.pc = "close"]
    ELSE [p EXCEPT !.pc = "close"]

\* close_step with the end-of-input error left with its own span
close_step_unanchored(p) ==
    LET n == next(p)
    IN IF n.res.ok
       THEN IF n.res.val = RBrace THEN push_variable(n.p)
            ELSE return(n.p, Err(parse_error(n.p, Msg("Unclosed brackets"), p.start)))
       ELSE return(n.p, Err(and_then(n.res.err, Msg("Unclosed brackets"))))

\* the closing bracket: lines 193-199
close_step(p) ==
    LET n == next(p)
    IN IF n.res.ok
       THEN IF n.res.val = RBrace THEN push_variable(n.p)
            ELSE return(n.p, Err(parse_error(n.p, Msg("Unclosed brackets"), p.start)))
       ELSE return(n.p, Err(with_span(and_then(n.res.err, Msg("Unclosed brackets")),
                                      span_from(n.p, p.start))))

\* the parser's next step, by where it is
step(p) ==
    CASE p.pc = "main" -> IF has_next(p) THEN parse_loop_body(p) ELSE parse_end(p)
      [] p.pc = "bare_name" -> bare_name_step(p)
      [] p.pc = "leading_ws" -> leading_ws_step(p)
      [] p.pc = "brace_name" -> brace_name_step(p)
      [] p.pc = "trailing_ws" -> trailing_ws_step(p)
      [] p.pc = "close" -> close_step(p)
      [] OTHER -> p

\* TemplateParser::parse run to its return
RECURSIVE parse(_)
parse(p) == IF p.ret # None THEN p.ret[1] ELSE parse(step(p))

\* map_wrap_err without the context: the ParseError is returned as it is
map_wrap_err_bare(r) == IF r.ok THEN Ok([parts |-> r.val]) ELSE Err(r.err)

\* what Template::parse makes of the parser's result: the parts become a
\* Template, an error gets the context "Could not parse template"
map_wrap_err(r) ==
    IF r.ok THEN Ok([parts |-> r.val])
    ELSE Err([msg |-> Msg("Could not parse template"), cause |-> Some(r.err)])

Template_parse(input) == map_wrap_err(parse(new(input)))

(***************************************************************************)
(* Template::resolve.                                                      *)
(***************************************************************************)
\* the resolver closures: a value or None for each of LookupNames, None for
\* every other name
LookupNames == {<<97>>, <<Dot>>}
LookupValues == {None, Some(<<>>), Some(<<Dollar, 98>>)}
Lookups == [LookupNames -> LookupValues]

call(resolver, name) == IF name \in DOMAIN resolver THEN resolver[name] ELSE None

\* resolve_from with each part put in front of the result
RECURSIVE resolve_from_prepending(_, _, _, _, _)
resolve_from_prepending(parts, resolver, i, result, calls) ==
    IF i > Len(parts) THEN [res |-> Ok(result), calls |-> calls]
    ELSE IF parts[i].kind = "Text"
    THEN resolve_from_prepending(parts, resolver, i + 1, parts[i].content \o result, calls)
    ELSE LET variable == parts[i].content
             value == call(resolver, variable)
         IN IF value = None
            THEN [res |-> Err(MsgWith("Could not resolve variable '{}' in template",
                                      variable)),
                  calls |-> Append(calls, variable)]
            ELSE resolve_from_prepending(parts, resolver, i + 1, value[1] \o result,
                                         Append(calls, variable))

\* resolve_from with a variable without a value resolved to the empty string
RECURSIVE resolve_from_lenient(_, _, _, _, _)
resolve_from_lenient(parts, resolver, i, result, calls) ==
    IF i > Len(parts) THEN [res |-> Ok(result), calls |-> calls]
    ELSE IF parts[i].kind = "Text"
    THEN resolve_from_lenient(parts, resolver, i + 1, result \o parts[i].content, calls)
    ELSE LET variable == parts[i].content
             value == call(resolver, variable)
         IN resolve_from_lenient(parts, resolver, i + 1,
                                 IF value = None THEN result ELSE result \o value[1],
                                 Append(calls, variable))

\* the loop of resolve from part i on; calls are the resolver's calls so far
RECURSIVE resolve_from(_, _, _, _, _)
resolve_from(parts, resolver, i, result, calls) ==
    IF i > Len(parts) THEN [res |-> Ok(result), calls |-> calls]
    ELSE IF parts[i].kind = "Text"
    THEN resolve_from(parts, resolver, i + 1, result \o parts[i].content, calls)
    ELSE LET variable == parts[i].content
             value == call(resolver, variable)
         IN IF value = None
            THEN [res |-> Err(MsgWith("Could not resolve variable '{}' in template",
                                      variable)),
                  calls |-> Append(calls, variable)]
            ELSE resolve_from(parts, resolver, i + 1, result \o value[1],
                              Append(calls, variable))

resolve(t, resolver) == resolve_from(t.parts, resolver, 1, <<>>, <<>>)

(***************************************************************************)
(* The template engine as a state machine: Template::parse on an input,    *)
(* one step of the parser at a time, then Template::resolve on the result. *)
(***************************************************************************)
NoLookup == [n \in LookupNames |-> None]

TemplateInit ==
    /\ parser \in {new(s) : s \in Inputs}
    /\ template = None
    /\ lookup = NoLookup
    /\ resolved = None
    /\ lookup_calls = <<>>

\* the parser moves to p; when parse() has returned, so does Template::parse
Advance(p) ==
    /\ parser' = p
    /\ template' = IF p.ret = None THEN None ELSE Some(map_wrap_err(p.ret[1]))
    /\ UNCHANGED <<lookup, resolved, lookup_calls, form_vars, quote_vars, error_vars>>

AtMain ==
    /\ parser.pc = "main"
    /\ has_next(parser)

ParseText ==
    /\ AtMain
    /\ parser.input[parser.cursor + 1] \notin {Backslash, Dollar}
    /\ Advance(parse_loop_body(parser))

ParseEscape ==
    /\ AtMain
    /\ parser.input[parser.cursor + 1] = Backslash
    /\ Advance(parse_loop_body(parser))

ParseVariable ==
    /\ AtMain
    /\ parser.input[parser.cursor + 1] = Dollar
    /\ Advance(parse_loop_body(parser))

ParseEnd ==
    /\ parser.pc = "main"
    /\ ~has_next(parser)
    /\ Advance(parse_end(parser))

BareName ==
    /\ parser.pc = "bare_name"
    /\ Advance(bare_name_step(parser))

LeadingWhitespace ==
    /\ parser.pc = "leading_ws"
    /\ Advance(leading_ws_step(parser))

BraceName ==
    /\ parser.pc = "brace_name"
    /\ Advance(brace_name_step(parser))

TrailingWhitespace ==
    /\ parser.pc = "trailing_ws"
    /\ Advance(trailing_ws_step(parser))

CloseBracket ==
    /\ parser.pc = "close"
    /\ Advance(close_step(parser))

Resolve ==
    /\ template # None
    /\ template[1].ok
    /\ \E resolver \in Lookups :
         LET r == resolve(template[1].val, resolver)
         IN /\ lookup' = resolver
            /\ resolved' = Some(r.res)
            /\ lookup_calls' = r.calls
    /\ UNCHANGED <<parser, template, form_vars, quote_vars, error_vars>>

Next ==
    \/ ParseText
    \/ ParseEscape
    \/ ParseVariable
    \/ ParseEnd
    \/ BareName
    \/ LeadingWhitespace
    \/ BraceName
    \/ TrailingWhitespace
    \/ CloseBracket
    \/ Resolve

(***************************************************************************)
(* The multipart encoder: quote and Form.                                  *)
(***************************************************************************)
DoubleQuote == 34
CarriageReturn == 13

\* str::as_bytes, String -> Bytes: the UTF-8 encoding of one character
utf8(c) ==
    IF c < 128 THEN <<c>>
    ELSE IF c < 2048 THEN <<192 + (c \div 64), 128 + (c % 64)>>
    ELSE IF c < 65536
    THEN <<224 + (c \div 4096), 128 + ((c \div 64) % 64), 128 + (c % 64)>>
    ELSE <<240 + (c \div 262144), 128 + ((c \div 4096) % 64),
           128 + ((c \div 64) % 64), 128 + (c % 64)>>

RECURSIVE as_bytes(_)
as_bytes(str) == IF str = <<>> THEN <<>> ELSE utf8(Head(str)) \o as_bytes(Tail(str))

\* quote without the carriage return among the quoted characters
RECURSIVE quote_without_cr(_)
quote_without_cr(str) ==
    IF str = <<>> THEN <<>>
    ELSE LET c == Head(str)
         IN (IF c = Backslash \/ c = DoubleQuote THEN <<Backslash, c>> ELSE <<c>>)
                \o quote_without_cr(Tail(str))

RECURSIVE quote(_)
quote(str) ==
    IF str = <<>> THEN <<>>
    ELSE LET c == Head(str)
         IN (IF c = Backslash \/ c = CarriageReturn \/ c = DoubleQuote
             THEN <<Backslash, c>>
             ELSE <<c>>) \o quote(Tail(str))

\* "-sdsaddsfgdghhskjtretyetertertedh?-" with a double quote in front
BoundaryWithQuote ==
    <<34, 45, 115, 100, 115, 97, 100, 100, 115, 102, 103, 100, 103, 104, 104,
      115, 107, 106, 116, 114, 101, 116, 121, 101, 116, 101, 114, 116, 101,
      114, 116, 101, 100, 104, 63, 45>>

\* "-sdsaddsfgdghhskjtretyetertertedh?-"
FormBoundary ==
    <<45, 115, 100, 115, 97, 100, 100, 115, 102, 103, 100, 103, 104, 104,
      115, 107, 106, 116, 114, 101, 116, 121, 101, 116, 101, 114, 116, 101,
      114, 116, 101, 100, 104, 63, 45>>

\* b"--" and b"\r\n"
Dashes == <<45, 45>>
Crlf == <<13, 10>>
\* b"Content-Disposition: form-data; name=\""
DispositionPrefix ==
    <<67, 111, 110, 116, 101, 110, 116, 45, 68, 105, 115, 112, 111, 115,
      105, 116, 105, 111, 110, 58, 32, 102, 111, 114, 109, 45, 100, 97, 116,
      97, 59, 32, 110, 97, 109, 101, 61, 34>>
\* b"; filename=\""
FilenamePrefix == <<59, 32, 102, 105, 108, 101, 110, 97, 109, 101, 61, 34>>
\* "multipart/form-data; boundary=\""
ContentTypePrefix ==
    <<109, 117, 108, 116, 105, 112, 97, 114, 116, 47, 102, 111, 114, 109,
      45, 100, 97, 116, 97, 59, 32, 98, 111, 117, 110, 100, 97, 114, 121, 61,
      34>>

FieldKey(name, file_name) == [name |-> name, file_name |-> file_name]
Field(key, data) == [key |-> key, data |-> data]

Form_new == [fields |-> <<>>, boundary |-> FormBoundary]

Form_content_type(form) ==
    ContentTypePrefix \o quote(form.boundary) \o <<DoubleQuote>>

\* Form::text with the new field put in place of the fields there were
Form_text_replacing(form, field_name, text) ==
    [form EXCEPT !.fields = <<Field(FieldKey(field_name, None), as_bytes(text))>>]

Form_text(form, field_name, text) ==
    [form EXCEPT !.fields = Append(@, Field(FieldKey(field_name, None), as_bytes(text)))]

\* Form::file with the field put in front of the others
Form_file_in_front(form, field_name, file_name, data) ==
    [form EXCEPT !.fields = <<Field(FieldKey(field_name, Some(file_name)), data)>> \o @]

Form_file(form, field_name, file_name, data) ==
    [form EXCEPT !.fields = Append(@, Field(FieldKey(field_name, Some(file_name)), data))]

\* one iteration of the loop of Form::bytes: lines 70-86
put_field(bytes, field, bound) ==
    LET head == bytes \o Dashes \o bound \o Crlf
                    \o DispositionPrefix \o as_bytes(quote(field.key.name))
                    \o <<DoubleQuote>>
        named == IF field.key.file_name # None
                 THEN head \o FilenamePrefix
                          \o as_bytes(quote(field.key.file_name[1]))
                          \o <<DoubleQuote>>
                 ELSE head
    IN named \o Crlf \o Crlf \o field.data \o Crlf

\* the loop of Form::bytes from field i on
RECURSIVE put_fields(_, _, _, _)
put_fields(bytes, flds, bound, i) ==
    IF i > Len(flds) THEN bytes
    ELSE put_fields(put_field(bytes, flds[i], bound), flds, bound, i + 1)

\* Form::bytes with the "--" after the final boundary left out
Form_bytes_unterminated(form) ==
    put_fields(<<>>, form.fields, as_bytes(form.boundary), 1)
        \o Dashes \o as_bytes(form.boundary)

Form_bytes(form) ==
    put_fields(<<>>, form.fields, as_bytes(form.boundary), 1)
        \o Dashes \o as_bytes(form.boundary) \o Dashes

(***************************************************************************)
(* The form as a state machine: a new Form, then text, file, bytes and     *)
(* content_type calls in any order.                                        *)
(***************************************************************************)
\* the most fields a form gets
MaxFields == 2

\* field names: "f", and one with a double quote, a backslash, a carriage
\* return, a line feed and the two-byte U+00E9
FieldNames == {<<102>>, <<34, 92, 13, 10, 233>>}
\* file names: "a.txt" and one with a backslash and a double quote
FileNames == {<<97, 46, 116, 120, 116>>, <<92, 34>>}
\* text values: the empty text and "{é}"
Texts == {<<>>, <<123, 233, 125>>}
\* file payloads: "hi", two bytes that are no UTF-8, and a payload that
\* spells a delimiter line of the form
Payloads == {<<104, 105>>, <<0, 255>>, Crlf \o Dashes \o FormBoundary \o Crlf}

TheForm == [fields |-> fields, boundary |-> boundary]

FormInit ==
    /\ fields = Form_new.fields
    /\ boundary = Form_new.boundary
    /\ body = None
    /\ body_fields = 0
    /\ header = None
    /\ added = <<>>

FormText ==
    /\ Len(fields) < MaxFields
    /\ \E field_name \in FieldNames, text \in Texts :
         LET form == Form_text(TheForm, field_name, text)
         IN /\ fields' = form.fields
            /\ boundary' = form.boundary
            /\ added' = Append(added, [op |-> "text", field_name |-> field_name,
                                       file_name |-> <<>>, payload |-> text])
    /\ UNCHANGED <<body, body_fields, header, template_vars, quote_vars, error_vars>>

FormFile ==
    /\ Len(fields) < MaxFields
    /\ \E field_name \in FieldNames, file_name \in FileNames, data \in Payloads :
         LET form == Form_file(TheForm, field_name, file_name, data)
         IN /\ fields' = form.fields
            /\ boundary' = form.boundary
            /\ added' = Append(added, [op |-> "file", field_name |-> field_name,
                                       file_name |-> file_name, payload |-> data])
    /\ UNCHANGED <<body, body_fields, header, template_vars, quote_vars, error_vars>>

\* Form::bytes that takes the fields out of the form
FormBytes_draining ==
    /\ body' = Some(Form_bytes(TheForm))
    /\ body_fields' = Len(fields)
    /\ fields' = <<>>
    /\ UNCHANGED <<boundary, header, added, template_vars, quote_vars, error_vars>>

FormBytes ==
    /\ body' = Some(Form_bytes(TheForm))
    /\ body_fields' = Len(fields)
    /\ UNCHANGED <<fields, boundary, header, added, template_vars, quote_vars, error_vars>>

FormContentType ==
    /\ header' = Some(Form_content_type(TheForm))
    /\ UNCHANGED <<fields, boundary, body, body_fields, added, template_vars, quote_vars, error_vars>>

(***************************************************************************)
(* quote on its own: an argument, then the call.                           *)
(***************************************************************************)
\* the longest argument of quote
MaxQuoteLen == 3

\* backslash, carriage return, double quote, line feed, 'a', U+00E9
QuoteAlphabet == {Backslash, CarriageReturn, DoubleQuote, 10, 97, 233}

QuoteInit ==
    /\ quote_in \in StringsUpTo(QuoteAlphabet, MaxQuoteLen)
    /\ quote_out = None

QuoteIdle ==
    /\ quote_in = <<>>
    /\ quote_out = None

QuoteCall ==
    /\ quote_out = None
    /\ quote_out' = Some(quote(quote_in))
    /\ UNCHANGED <<quote_in, template_vars, form_vars, error_vars>>

(***************************************************************************)
(* Error wrapping on its own: an error of either type, then and_then calls *)
(* on it.                                                                  *)
(***************************************************************************)
\* the most and_then calls made on one error
MaxWraps == 3

MuError_new(msg) ==
    [msg |-> msg, source_code |-> None, span |-> None, help |-> None, cause |-> None]

MuError_source_code(e, source_code) == [e EXCEPT !.source_code = source_code]

MuError_span(e, span) == [e EXCEPT !.span = span]

MuError_help(e, help) == [e EXCEPT !.help = help]

MuError_cause(e, cause) == [e EXCEPT !.cause = Some(cause)]

MuError_and_then(e, msg) ==
    MuError_cause(
        MuError_span(MuError_source_code(MuError_new(msg), e.source_code), e.span),
        e)

\* an error of another type, as std::env::VarError: a message and no source
ForeignError(msg) == [msg |-> msg, cause |-> None]

\* templates whose parse fails: "$", "\", "${a", "$é", "${ }"
FailingInputs ==
    {<<Dollar>>, <<Backslash>>, <<Dollar, LBrace, 97>>, <<Dollar, 233>>,
     <<Dollar, LBrace, 32, RBrace>>}

\* the errors the parser returns for them, with and without a cause
ParseErrors == {parse(new(input)).err : input \in FailingInputs}

\* errors as main.rs and requests/mod.rs build them (a message with a help,
\* a message with a foreign cause), and errors with a source text and a span
MuErrors ==
    {MuError_new(Msg("Missing environment variable GITHUB_TOKEN")),
     MuError_help(MuError_new(Msg("Missing environment variable GITHUB_TOKEN")),
                  Some(Msg("Using environment variables"))),
     MuError_cause(MuError_new(MsgWith("Failed to get environment variable {}",
                                       <<71, 72>>)),
                   ForeignError(Msg("environment variable was not valid unicode"))),
     MuError_span(MuError_source_code(MuError_new(Msg("Bad value")),
                                      Some(<<97, 233, 98>>)),
                  Some([start |-> 1, length |-> 2])),
     MuError_help(MuError_source_code(MuError_new(Msg("Bad value")),
                                      Some(<<>>)),
                  Some(Msg("Check the file")))}

\* the messages errors are wrapped with
Contexts == {Msg("Could not parse template"), Msg("Could not read escape")}

ErrorInit ==
    /\ \/ error_type = "ParseError" /\ origin \in ParseErrors
       \/ error_type = "MuError" /\ origin \in MuErrors
    /\ error = origin
    /\ contexts = <<>>

ErrorIdle ==
    /\ error_type = "ParseError"
    /\ origin = parse(new(<<Dollar>>)).err
    /\ error = origin
    /\ contexts = <<>>

ParseErrorAndThen ==
    /\ error_type = "ParseError"
    /\ Len(contexts) < MaxWraps
    /\ \E msg \in Contexts :
         /\ error' = and_then(error, msg)
         /\ contexts' = Append(contexts, msg)
    /\ UNCHANGED <<error_type, origin, template_vars, form_vars, quote_vars>>

MuErrorAndThen ==
    /\ error_type = "MuError"
    /\ Len(contexts) < MaxWraps
    /\ \E msg \in Contexts :
         /\ error' = MuError_and_then(error, msg)
         /\ contexts' = Append(contexts, msg)
    /\ UNCHANGED <<error_type, origin, template_vars, form_vars, quote_vars>>

TemplateIdle ==
    /\ parser = new(<<>>)
    /\ template = None
    /\ lookup = NoLookup
    /\ resolved = None
    /\ lookup_calls = <<>>

Init == TemplateInit /\ FormInit /\ QuoteIdle /\ ErrorIdle

Spec == Init /\ [][Next]_vars

FormSpecInit == TemplateIdle /\ FormInit /\ QuoteIdle /\ ErrorIdle

FormNext ==
    \/ FormText
    \/ FormFile
    \/ FormBytes
    \/ FormContentType

SpecForm == FormSpecInit /\ [][FormNext]_vars

QuoteSpecInit == TemplateIdle /\ FormInit /\ QuoteInit /\ ErrorIdle

QuoteNext == QuoteCall

SpecQuote == QuoteSpecInit /\ [][QuoteNext]_vars

\* Template::parse alone, run to its return: the call is sequential code, so
\* a step that can be taken is taken
ParseNext ==
    \/ ParseText
    \/ ParseEscape
    \/ ParseVariable
    \/ ParseEnd
    \/ BareName
    \/ LeadingWhitespace
    \/ BraceName
    \/ TrailingWhitespace
    \/ CloseBracket

SpecParse == Init /\ [][ParseNext]_vars /\ WF_vars(ParseNext)

ErrorSpecInit == TemplateIdle /\ FormInit /\ QuoteIdle /\ ErrorInit

ErrorNext ==
    \/ ParseErrorAndThen
    \/ MuErrorAndThen

SpecError == ErrorSpecInit /\ [][ErrorNext]_vars

(***************************************************************************)
(* Properties of the template engine, checked under Spec.                  *)
(***************************************************************************)
IsLiteral(s) == \A i \in 1..Len(s) : s[i] \notin {Backslash, Dollar}

\* C1: for an input with neither a backslash nor a dollar sign (the empty
\* input too) Template::parse succeeds, and resolve returns Ok of the input
\* itself for every resolver, without calling the resolver.
C1_LiteralRoundTrip ==
    IsLiteral(parser.input) =>
        /\ parser.pc # "failed"
        /\ template # None => template[1].ok
        /\ resolved # None => resolved[1] = Ok(parser.input) /\ lookup_calls = <<>>

\* a literal input that spells a name the resolver knows has been resolved
C1_Witness ==
    /\ IsLiteral(parser.input)
    /\ Len(parser.input) >= 3
    /\ \E i \in 1..Len(parser.input) : parser.input[i] = 97
    /\ lookup[<<97>>] = Some(<<Dollar, 98>>)
    /\ resolved # None

\* what part i of a template stands for under a resolver that knows it
PartValue(part, resolver) ==
    IF part.kind = "Text" THEN part.content ELSE call(resolver, part.content)[1]

\* the values of the first n parts, the last one last
RECURSIVE Concatenation(_, _, _)
Concatenation(parts, resolver, n) ==
    IF n = 0 THEN <<>>
    ELSE Concatenation(parts, resolver, n - 1) \o PartValue(parts[n], resolver)

Missing(parts, resolver) ==
    {i \in 1..Len(parts) :
        parts[i].kind = "Variable" /\ call(resolver, parts[i].content) = None}

\* C2: when the resolver has a value for every Variable part, resolve returns
\* Ok of the concatenation, in part order, of the Text parts' contents and
\* the Variable parts' values.
C2_ResolveConcatenates ==
    (resolved # None /\ Missing(template[1].val.parts, lookup) = {}) =>
        resolved[1] = Ok(Concatenation(template[1].val.parts, lookup,
                                       Len(template[1].val.parts)))

\* a text, a variable with a non-empty value and another part were resolved
C2_Witness ==
    /\ resolved # None
    /\ resolved[1].ok
    /\ Len(template[1].val.parts) >= 3
    /\ template[1].val.parts[1].kind = "Text"
    /\ template[1].val.parts[2].kind = "Variable"
    /\ call(lookup, template[1].val.parts[2].content) = Some(<<Dollar, 98>>)

Min(S) == CHOOSE x \in S : \A y \in S : x <= y

\* the names of the Variable parts among the first n parts, in part order
RECURSIVE VariableNames(_, _)
VariableNames(parts, n) ==
    IF n = 0 THEN <<>>
    ELSE IF parts[n].kind = "Variable"
    THEN Append(VariableNames(parts, n - 1), parts[n].content)
    ELSE VariableNames(parts, n - 1)

\* C3: resolve fails exactly when the resolver has no value for some Variable
\* part; it then returns the error that names the first such variable (and
\* no string), and the resolver was called for no part after that one.
C3_ResolveFailsFast ==
    resolved # None =>
        LET parts == template[1].val.parts
            missing == Missing(parts, lookup)
        IN /\ ~resolved[1].ok <=> missing # {}
           /\ missing # {} =>
                /\ resolved[1] =
                     Err(MsgWith("Could not resolve variable '{}' in template",
                                 parts[Min(missing)].content))
                /\ lookup_calls = VariableNames(parts, Min(missing))
           /\ missing = {} => lookup_calls = VariableNames(parts, Len(parts))

\* resolve failed at a variable that has a variable of another name, one the
\* resolver knows, after it
C3_Witness ==
    /\ resolved # None
    /\ ~resolved[1].ok
    /\ LET parts == template[1].val.parts
           first == Min(Missing(parts, lookup))
       IN \E j \in (first + 1)..Len(parts) :
            /\ parts[j].kind = "Variable"
            /\ call(lookup, parts[j].content) # None

\* what a backslash followed by c adds to the literal text
Escaped(c) ==
    IF c = Backslash THEN <<Backslash>>
    ELSE IF c = Dollar THEN <<Dollar>>
    ELSE <<Backslash, c>>

\* the parser is at a backslash that has a character after it
AtEscape ==
    /\ parser.pc = "main"
    /\ parser.cursor + 2 <= Len(parser.input)
    /\ parser.input[parser.cursor + 1] = Backslash

\* C4: a backslash followed by a character c adds to the literal text one
\* backslash when c is a backslash, one dollar sign when c is a dollar sign
\* (no variable is started), and the backslash and c for any other c; so
\* two backslashes resolve to one backslash and backslash-dollar to a dollar.
C4_Escapes ==
    /\ [][AtEscape =>
            /\ parser'.buffer = parser.buffer \o Escaped(parser.input[parser.cursor + 2])
            /\ parser'.cursor = parser.cursor + 2
            /\ parser'.result = parser.result
            /\ parser'.pc = "main"]_vars
    /\ []((parser.input = <<Backslash, Backslash>> /\ resolved # None)
            => resolved[1] = Ok(<<Backslash>>))
    /\ []((parser.input = <<Backslash, Dollar>> /\ resolved # None)
            => resolved[1] = Ok(<<Dollar>>))
    /\ [](parser.input \in {<<Backslash, Backslash>>, <<Backslash, Dollar>>}
            => parser.pc # "failed")

\* an input with an unrecognised escape and an escaped dollar was resolved
C4_Witness ==
    /\ parser.input = <<Backslash, 97, Backslash, Dollar>>
    /\ resolved = Some(Ok(<<Backslash, 97, Dollar>>))

AllOf(s, from, to, Is(_)) == \A i \in from..to : Is(s[i])

\* C5: "${" w1 n w2 "}" with whitespace runs w1, w2 and a non-empty name n,
\* as the whole input, parses to the template of "$" n, the single part
\* Variable(n), and so resolves as "$" n does for every resolver.
C5_BracedEqualsBare ==
    LET s == parser.input
        last == Len(s) - 1
    IN (Len(s) >= 4 /\ s[1] = Dollar /\ s[2] = LBrace /\ s[Len(s)] = RBrace) =>
         \A i \in 2..last : \A j \in (i + 1)..last :
            ( /\ AllOf(s, 3, i, is_whitespace)
              /\ AllOf(s, i + 1, j, is_valid_variable_char)
              /\ AllOf(s, j + 1, last, is_whitespace) ) =>
                LET n == SubSeq(s, i + 1, j)
                    bare == Template_parse(BareForm(n))
                IN /\ parser.pc # "failed"
                   /\ template # None =>
                        /\ template[1] = Ok([parts |-> <<Variable(n)>>])
                        /\ template[1] = bare
                   /\ resolved # None =>
                        resolved[1] = resolve(bare.val, lookup).res

\* a name with whitespace on both sides inside the brackets was resolved
C5_Witness ==
    /\ parser.input = BracedForm(<<32, 12288>>, <<97>>, <<32>>)
    /\ resolved = Some(Ok(<<Dollar, 98>>))

(***************************************************************************)
(* Properties of the multipart encoder, checked under SpecForm (C9 under   *)
(* SpecQuote).                                                             *)
(***************************************************************************)
\* the serialized form of one field under boundary bytes B
FieldBlock(f, B) ==
    Dashes \o B \o Crlf
        \o DispositionPrefix \o as_bytes(quote(f.key.name)) \o <<DoubleQuote>>
        \o (IF f.key.file_name = None THEN <<>>
            ELSE FilenamePrefix \o as_bytes(quote(f.key.file_name[1])) \o <<DoubleQuote>>)
        \o Crlf \o Crlf \o f.data \o Crlf

\* the blocks of the first n fields of fs, the last one last
RECURSIVE Blocks(_, _, _)
Blocks(fs, B, n) ==
    IF n = 0 THEN <<>> ELSE Blocks(fs, B, n - 1) \o FieldBlock(fs[n], B)

\* C6: Form::bytes returns, for each field in order, "--" B CRLF, the
\* Content-Disposition line with the quoted name and, exactly for a field
\* with a file name, the quoted file name, CRLF CRLF, the payload as it is,
\* CRLF; then "--" B "--" and nothing after it. An empty form gives
\* "--" B "--".
C6_BytesFormat ==
    body # None =>
        LET B == as_bytes(boundary)
        IN /\ body_fields <= Len(fields)
           /\ body[1] = Blocks(fields, B, body_fields) \o Dashes \o B \o Dashes
           /\ body_fields = 0 => body[1] = Dashes \o B \o Dashes

\* a form with a text field and a file field was serialized
C6_Witness ==
    /\ body # None
    /\ body_fields = 2
    /\ fields[1].key.file_name = None
    /\ fields[1].key.name = <<34, 92, 13, 10, 233>>
    /\ fields[2].key.file_name = Some(<<92, 34>>)
    /\ fields[2].data = <<0, 255>>

\* the field a text or file call adds
FieldOfCall(c) ==
    IF c.op = "text"
    THEN Field(FieldKey(c.field_name, None), as_bytes(c.payload))
    ELSE Field(FieldKey(c.field_name, Some(c.file_name)), c.payload)

\* the blocks of the fields of the first n calls, in call order
RECURSIVE BlocksOfCalls(_, _, _)
BlocksOfCalls(calls, B, n) ==
    IF n = 0 THEN <<>>
    ELSE BlocksOfCalls(calls, B, n - 1) \o FieldBlock(FieldOfCall(calls[n]), B)

\* C7: the fields of a form are the fields of its text and file calls in call
\* order (a text call's field has no file name, a file call's has one); each
\* call leaves the earlier fields and the boundary as they were; and
\* Form::bytes emits the fields in call order.
C7_FieldOrder ==
    /\ [](/\ Len(fields) = Len(added)
          /\ \A i \in 1..Len(added) : fields[i] = FieldOfCall(added[i])
          /\ \A i \in 1..Len(added) :
                (added[i].op = "text") <=> (fields[i].key.file_name = None)
          /\ body # None =>
                body[1] = BlocksOfCalls(added, as_bytes(boundary), body_fields)
                            \o Dashes \o as_bytes(boundary) \o Dashes)
    /\ [][(FormText \/ FormFile) =>
            /\ Len(fields') = Len(fields) + 1
            /\ SubSeq(fields', 1, Len(fields)) = fields
            /\ boundary' = boundary]_vars

\* a text call and then a file call were made, and the form serialized
C7_Witness ==
    /\ Len(added) = 2
    /\ added[1].op = "text"
    /\ added[2].op = "file"
    /\ added[1].field_name # added[2].field_name
    /\ body # None
    /\ body_fields = 2

\* C8: Form::bytes and Form::content_type leave the fields and the boundary
\* as they are, and a second Form::bytes with no text or file call since the
\* first returns the same bytes.
C8_BytesIdempotent ==
    /\ [][(FormBytes \/ FormContentType) =>
            (fields' = fields /\ boundary' = boundary)]_vars
    /\ [][(FormBytes /\ body # None /\ body_fields = Len(fields)) =>
            body' = body]_vars

\* a form with two fields has been serialized and its header read
C8_Witness ==
    /\ body # None
    /\ header # None
    /\ Len(fields) = 2
    /\ body_fields = Len(fields)

IsSpecial(c) == c \in {Backslash, CarriageReturn, DoubleQuote}

\* the number of special characters among the first n of s
SpecialsUpTo(s, n) == Cardinality({i \in 1..n : IsSpecial(s[i])})

\* C9: quote(s) is s with a backslash put right before each backslash,
\* carriage return and double quote and every other character (the line feed
\* too) kept, in order: character i of s stands at position i plus the
\* number of special characters up to and including i, with a backslash
\* right before it exactly when it is special; so the length grows by the
\* number of special characters, and without any quote is the identity.
C9_Quote ==
    quote_out # None =>
        LET s == quote_in
            q == quote_out[1]
            pos(i) == i + SpecialsUpTo(s, i)
        IN /\ Len(q) = Len(s) + SpecialsUpTo(s, Len(s))
           /\ \A i \in 1..Len(s) :
                /\ q[pos(i)] = s[i]
                /\ IsSpecial(s[i]) => q[pos(i) - 1] = Backslash
           /\ SpecialsUpTo(s, Len(s)) = 0 => q = s

\* a string with a carriage return, a line feed and a double quote was quoted
C9_Witness ==
    /\ quote_in = <<CarriageReturn, 10, DoubleQuote>>
    /\ quote_out = Some(<<Backslash, CarriageReturn, 10, Backslash, DoubleQuote>>)

\* the boundary the header declares: what stands between the quotes
DeclaredBoundary(h) == SubSeq(h, Len(ContentTypePrefix) + 1, Len(h) - 1)

\* where field i starts in the bytes of a form
FieldOffset(form, i) ==
    Len(Form_bytes([form EXCEPT !.fields = SubSeq(@, 1, i - 1)]))
        - (Len(as_bytes(form.boundary)) + 4)

\* C10: Form::content_type returns 'multipart/form-data; boundary="' then
\* quote(boundary) then '"', and the token it declares is, byte for byte,
\* what Form::bytes writes after the "--" of each field and of the end.
C10_BoundaryAgrees ==
    /\ header # None =>
         header[1] = ContentTypePrefix \o quote(boundary) \o <<DoubleQuote>>
    /\ (header # None /\ body # None) =>
         LET token == as_bytes(DeclaredBoundary(header[1]))
             form == [fields |-> SubSeq(fields, 1, body_fields), boundary |-> boundary]
             delimiter == Dashes \o token
         IN \A i \in 1..(body_fields + 1) :
                SubSeq(body[1], FieldOffset(form, i) + 1,
                       FieldOffset(form, i) + Len(delimiter)) = delimiter

\* the header and the bytes of a form with two fields are both there
C10_Witness ==
    /\ header # None
    /\ body # None
    /\ body_fields = 2

(***************************************************************************)
(* Properties of the parser's errors and of the parsed parts, checked      *)
(* under Spec.                                                             *)
(***************************************************************************)
\* the byte offset in the UTF-8 text of s of the character after the first n
ByteOffset(s, n) == Len(as_bytes(SubSeq(s, 1, n)))

\* the ParseError the parser returned
TheError == parser.ret[1].err

\* the parser is at an unescaped dollar sign that is the last character
AtTrailingDollar ==
    /\ parser.pc = "main"
    /\ parser.cursor + 1 = Len(parser.input)
    /\ parser.input[parser.cursor + 1] = Dollar

\* C11 as stated: an input that ends with an unescaped dollar sign fails with
\* the end-of-input error, whose span starts at the byte offset of the
\* dollar sign.
C11_SpanAtDollar ==
    [][AtTrailingDollar =>
        /\ parser'.pc = "failed"
        /\ parser'.ret[1].err.msg = Msg("Cannot read: reached end of text")
        /\ parser'.ret[1].err.span.start = ByteOffset(parser.input, parser.cursor)]_vars

\* C11, amended: an input that ends with an unescaped dollar sign fails with
\* the end-of-input error "Cannot read: reached end of text", which has no
\* cause and whose span is empty and starts right after the dollar sign, at
\* the end of the input.
C11_SpanAfterDollar ==
    [][AtTrailingDollar =>
        /\ parser'.pc = "failed"
        /\ parser'.ret[1].err.msg = Msg("Cannot read: reached end of text")
        /\ parser'.ret[1].err.cause = None
        /\ parser'.ret[1].err.span =
             [start |-> ByteOffset(parser.input, Len(parser.input)), length |-> 0]]_vars

\* the two-byte U+00E9 and a dollar sign have failed, the span at byte 3
C11_Witness ==
    /\ parser.input = <<233, Dollar>>
    /\ parser.pc = "failed"
    /\ TheError.span.start = 3

Max(S) == CHOOSE x \in S : \A y \in S : x >= y

\* the position of the opening bracket of the variable the parser is inside:
\* the last bracket it has consumed
OpeningBracket ==
    Max({i \in 1..parser.cursor : parser.input[i] = LBrace})

\* the parser has consumed the name and the whitespace after it, and what
\* follows is no closing bracket
AtUnclosed ==
    /\ parser.pc = "close"
    /\ \/ parser.cursor = Len(parser.input)
       \/ parser.input[parser.cursor + 1] # RBrace

\* C12: when, after the name and the whitespace after it, there follows
\* another character than the closing bracket, or nothing, parse fails with
\* "Unclosed brackets"; the span starts at the byte offset of the opening
\* bracket and ends where the parser is at the failure: at the end of the
\* input, or right after the other character.
C12_UnclosedSpan ==
    [][AtUnclosed =>
        LET end == IF parser.cursor = Len(parser.input)
                   THEN Len(parser.input)
                   ELSE parser.cursor + 1
        IN /\ parser'.pc = "failed"
           /\ parser'.cursor = end
           /\ parser'.ret[1].err.msg = Msg("Unclosed brackets")
           /\ parser'.ret[1].err.span.start =
                ByteOffset(parser.input, OpeningBracket - 1)
           /\ parser'.ret[1].err.span.start + parser'.ret[1].err.span.length =
                ByteOffset(parser.input, end)]_vars

\* U+00E9, then "${a" and the end of the input: the span is bytes 3 to 5
C12_Witness ==
    /\ parser.input = <<233, Dollar, LBrace, 97>>
    /\ parser.pc = "failed"
    /\ TheError.msg = Msg("Unclosed brackets")
    /\ TheError.span = [start |-> 3, length |-> 2]

\* the parser is inside the brackets of a variable and the input has ended
AtEndInsideBrackets ==
    /\ parser.pc \in {"leading_ws", "brace_name", "trailing_ws", "close"}
    /\ parser.cursor = Len(parser.input)

\* C13: when the input ends after "${" and before the closing bracket,
\* wherever inside the brackets (right after the bracket, after whitespace
\* only, after the name, after the whitespace after the name), the failure
\* is "Unclosed brackets" with the end-of-input error as its cause and a
\* span that starts at the opening bracket.
C13_UnclosedAtEnd ==
    [][(AtEndInsideBrackets /\ parser'.pc = "failed") =>
        /\ parser'.ret[1].err.msg = Msg("Unclosed brackets")
        /\ parser'.ret[1].err.cause # None
        /\ parser'.ret[1].err.cause[1].msg \in
             {Msg("Cannot read: reached end of text"),
              Msg("Cannot peek: reached end of text")}
        /\ parser'.ret[1].err.span.start =
             ByteOffset(parser.input, OpeningBracket - 1)]_vars

\* the characters of [A-Za-z0-9_.]
IsNameChar(c) == c \in (48..57) \cup (65..90) \cup (97..122) \cup {95, 46}

\* the parser is at an unescaped dollar sign, and the character after it is
\* neither an opening bracket nor a name character
AtBadVariableStart ==
    /\ parser.pc = "main"
    /\ parser.cursor + 2 <= Len(parser.input)
    /\ parser.input[parser.cursor + 1] = Dollar
    /\ parser.input[parser.cursor + 2] # LBrace
    /\ ~IsNameChar(parser.input[parser.cursor + 2])

\* C14: when the character c after an unescaped dollar sign is neither an
\* opening bracket nor a name character, parse fails with an error whose
\* message has c in it and whose span starts at the byte offset of c and is
\* as long as the UTF-8 encoding of c.
C14_BadVariableStart ==
    [][AtBadVariableStart =>
        LET c == parser.input[parser.cursor + 2]
        IN /\ parser'.pc = "failed"
           /\ parser'.ret[1].err.msg =
                MsgWith("Expected variable name or curly brackets after $, found {}",
                        <<c>>)
           /\ parser'.ret[1].err.span =
                [start |-> ByteOffset(parser.input, parser.cursor + 1),
                 length |-> Len(utf8(c))]]_vars

\* U+00E9, a dollar sign and U+00E9 again: the span is bytes 3 and 4
C14_Witness ==
    /\ parser.input = <<233, Dollar, 233>>
    /\ parser.pc = "failed"
    /\ TheError.msg.args = << <<233>> >>
    /\ TheError.span = [start |-> 3, length |-> 2]

\* inside "${" the parser has consumed the leading whitespace and stands at
\* a character that is no name character
AtEmptyName ==
    /\ parser.pc = "brace_name"
    /\ parser.var_name = <<>>
    /\ parser.cursor < Len(parser.input)
    /\ ~IsNameChar(parser.input[parser.cursor + 1])

\* the position of the first character after the opening bracket that is no
\* whitespace
AfterLeadingWhitespace ==
    Min({i \in (OpeningBracket + 1)..Len(parser.input) :
            ~is_whitespace(parser.input[i])})

\* C15: when, inside "${", the character after the leading whitespace is no
\* name character, parse fails with "No variable name found inside
\* brackets"; the span is empty and starts at the byte offset right after
\* the leading whitespace.
C15_EmptyName ==
    [][AtEmptyName =>
        /\ parser'.pc = "failed"
        /\ parser'.ret[1].err.msg = Msg("No variable name found inside brackets")
        /\ parser'.ret[1].err.cause = None
        /\ parser'.ret[1].err.span =
             [start |-> ByteOffset(parser.input, AfterLeadingWhitespace - 1),
              length |-> 0]]_vars

\* "${ }": the span is empty, at byte 3, after the space
C15_Witness ==
    /\ parser.input = <<Dollar, LBrace, 32, RBrace>>
    /\ parser.pc = "failed"
    /\ TheError.msg = Msg("No variable name found inside brackets")
    /\ TheError.span = [start |-> 3, length |-> 0]

\* C16: a failure of Template::parse has "Could not parse template" as its
\* outermost message and the parser's ParseError, with that error's own
\* causes, as its cause; Template::parse returns a Template of the whole
\* input or an error, never both, and no Template of a part of the input.
C16_ParseResult ==
    /\ (template = None) <=> (parser.ret = None)
    /\ template # None =>
         IF template[1].ok
         THEN /\ DOMAIN template[1] = {"ok", "val"}
              /\ parser.pc = "done"
              /\ parser.ret[1].ok
              /\ parser.cursor = Len(parser.input)
              /\ template[1].val = [parts |-> parser.ret[1].val]
              /\ template[1].val.parts = parser.result
         ELSE /\ DOMAIN template[1] = {"ok", "err"}
              /\ parser.pc = "failed"
              /\ ~parser.ret[1].ok
              /\ template[1].err.msg = Msg("Could not parse template")
              /\ template[1].err.cause = Some(TheError)

\* Template::parse failed on a trailing backslash: under the context stand
\* "Could not read escape" and, as its cause, the end-of-input error
C16_Witness ==
    /\ template # None
    /\ ~template[1].ok
    /\ template[1].err.cause[1].msg = Msg("Could not read escape")
    /\ template[1].err.cause[1].cause # None
    /\ template[1].err.cause[1].cause[1].msg = Msg("Cannot read: reached end of text")

\* an error and its causes, the outermost first
RECURSIVE Chain(_)
Chain(e) == <<e>> \o (IF e.cause = None THEN <<>> ELSE Chain(e.cause[1]))

\* C17: in every state of the parser byte_offset is the number of bytes of
\* the UTF-8 text of the characters consumed so far; and the span of every
\* ParseError, causes included, is a byte range of the source (its start and
\* its length are not negative and it ends within the source), with the
\* whole input as the error's source text.
C17_ByteOffsets ==
    /\ parser.cursor \in 0..Len(parser.input)
    /\ parser.byte_offset = ByteOffset(parser.input, parser.cursor)
    /\ (parser.ret # None /\ ~parser.ret[1].ok) =>
         \A i \in 1..Len(Chain(TheError)) :
            LET e == Chain(TheError)[i]
            IN /\ e.src = parser.input
               /\ e.span.start >= 0
               /\ e.span.length >= 0
               /\ e.span.start + e.span.length
                    <= ByteOffset(parser.input, Len(parser.input))

\* after two U+00E9 a dollar sign and a third U+00E9 have failed: the span
\* is the last two of the 7 bytes of the input
C17_Witness ==
    /\ parser.input = <<233, 233, Dollar, 233>>
    /\ parser.pc = "failed"
    /\ parser.byte_offset = 7
    /\ TheError.span = [start |-> 5, length |-> 2]

NoEmptyText(parts) ==
    \A i \in 1..Len(parts) : parts[i].kind = "Text" => parts[i].content # <<>>

\* C18: no template a successful parse returns has a Text part with empty
\* content (nor has the parser's result at any time), whether the input
\* starts with a variable, ends with one or has two variables in a row.
C18_NoEmptyText ==
    /\ NoEmptyText(parser.result)
    /\ (template # None /\ template[1].ok) => NoEmptyText(template[1].val.parts)

\* "$a$." was parsed: two variables in a row, first and last in the input
C18_Witness ==
    /\ parser.input = <<Dollar, 97, Dollar, Dot>>
    /\ template = Some(Ok([parts |-> <<Variable(<<97>>), Variable(<<Dot>>)>>]))

\* C19 as stated: in a template a successful parse returns, Text and
\* Variable parts alternate: no two adjacent parts are of the same kind.
C19_Alternate ==
    (template # None /\ template[1].ok) =>
        \A i \in 1..(Len(template[1].val.parts) - 1) :
            template[1].val.parts[i].kind # template[1].val.parts[i + 1].kind

\* C19, amended: in a template a successful parse returns no two adjacent
\* parts are both Text (two adjacent parts may both be Variable).
C19_NoAdjacentText ==
    (template # None /\ template[1].ok) =>
        \A i \in 1..(Len(template[1].val.parts) - 1) :
            ~ /\ template[1].val.parts[i].kind = "Text"
              /\ template[1].val.parts[i + 1].kind = "Text"

\* a text, a variable and a text again were parsed
C19_Witness ==
    /\ template # None
    /\ template[1].ok
    /\ Len(template[1].val.parts) = 3
    /\ template[1].val.parts[1].kind = "Text"
    /\ template[1].val.parts[2].kind = "Variable"
    /\ template[1].val.parts[3].kind = "Text"

IsName(s) == s # <<>> /\ \A i \in 1..Len(s) : IsNameChar(s[i])

\* the parser, inside a bare name, goes back to the loop of parse()
BareNameEnds == parser.pc = "bare_name" /\ parser'.pc = "main"

\* C20: the name of a bare variable is the longest run of name characters
\* after the dollar sign; the first character that is no name character is
\* not consumed with the variable, and the loop of parse() goes on at it.
\* Every Variable part, bare or in brackets, has a non-empty name of name
\* characters only.
C20_VariableNames ==
    /\ [](\A i \in 1..Len(parser.result) :
            parser.result[i].kind = "Variable" => IsName(parser.result[i].content))
    /\ [][BareNameEnds =>
            LET c == parser'.cursor
                name == parser'.result[Len(parser'.result)].content
            IN /\ parser'.result = Append(parser.result, Variable(name))
               /\ IsName(name)
               /\ c - Len(name) >= 1
               /\ parser.input[c - Len(name)] = Dollar
               /\ name = SubSeq(parser.input, c - Len(name) + 1, c)
               /\ c < Len(parser.input) => ~IsNameChar(parser.input[c + 1])
               /\ c = parser.cursor
               /\ parser'.buffer = <<>>]_vars

\* "$a. " was parsed: the name is "a.", the space after it is text
C20_Witness ==
    /\ parser.input = <<Dollar, 97, Dot, 32>>
    /\ template = Some(Ok([parts |-> <<Variable(<<97, Dot>>), Text(<<32>>)>>]))

(***************************************************************************)
(* Properties of the framing of the body, checked under SpecForm.          *)
(***************************************************************************)
\* bytes b hold the byte sequence d from position i on
HoldsAt(b, d, i) ==
    /\ i + Len(d) - 1 <= Len(b)
    /\ SubSeq(b, i, i + Len(d) - 1) = d

\* the positions of bytes b where a delimiter stands: "--" B at the very
\* start of b or right after a CRLF
DelimiterStarts(b, B) ==
    {i \in 1..Len(b) :
        /\ HoldsAt(b, Dashes \o B, i)
        /\ i = 1 \/ (i > 2 /\ SubSeq(b, i - 2, i - 1) = Crlf)}

\* C21: in the bytes Form::bytes returns for a form of n fields the delimiter
\* (at the start or after a CRLF, "--" and the boundary) stands at the start
\* of each field and at the final boundary and nowhere else, n + 1 times,
\* whatever bytes the payloads and the names hold.
C21_BoundaryFrames ==
    body # None =>
        LET B == as_bytes(boundary)
            starts == DelimiterStarts(body[1], B)
        IN /\ Cardinality(starts) = body_fields + 1
           /\ starts = {Len(Blocks(fields, B, k)) + 1 : k \in 0..body_fields}

(***************************************************************************)
(* Properties of error wrapping, checked under SpecError.                  *)
(***************************************************************************)
\* the source text an error of either type carries
SourceText(e) == IF "src" \in DOMAIN e THEN e.src ELSE e.source_code

AndThenCalled == ParseErrorAndThen \/ MuErrorAndThen

\* C22: and_then(msg), of ParseError and of MuError, returns an error whose
\* message is msg, whose source text and span are the wrapped error's, and
\* whose cause is the wrapped error as it was (its message, span and chain
\* of causes). After k calls the chain is k links longer than the first
\* error's, so k + 1 links on an error without a cause; the messages stand
\* outermost first in reverse call order and the first error is innermost of
\* the wrapping links.
C22_AndThen ==
    /\ [][AndThenCalled =>
            /\ error'.msg = contexts'[Len(contexts')]
            /\ SourceText(error') = SourceText(error)
            /\ error'.span = error.span
            /\ error'.cause = Some(error)
            /\ Chain(error'.cause[1]) = Chain(error)]_vars
    /\ [](LET k == Len(contexts)
          IN /\ Len(Chain(error)) = k + Len(Chain(origin))
             /\ origin.cause = None => Len(Chain(error)) = k + 1
             /\ Chain(error)[k + 1] = origin
             /\ \A i \in 1..k : Chain(error)[i].msg = contexts[k + 1 - i]
             /\ \A i \in 1..k :
                    /\ SourceText(Chain(error)[i]) = SourceText(origin)
                    /\ Chain(error)[i].span = origin.span)

\* a parser's error that has a cause of its own was wrapped twice, with two
\* different messages
C22_Witness ==
    /\ error_type = "ParseError"
    /\ origin.cause # None
    /\ Len(contexts) = 2
    /\ contexts[1] # contexts[2]
    /\ Len(Chain(error)) = 4

(***************************************************************************)
(* Termination of the parser, checked under SpecParse.                     *)
(***************************************************************************)
\* the character the parser would read next, when there is one
AtChar(Is(_)) ==
    /\ parser.cursor < Len(parser.input)
    /\ Is(parser.input[parser.cursor + 1])

AnyChar(c) == TRUE

\* the parser is about to run an iteration of the main loop, of one of the
\* two whitespace loops, of the name loop
MainIteration == parser.pc = "main" /\ AtChar(AnyChar)
WhitespaceIteration == parser.pc \in {"leading_ws", "trailing_ws"} /\ AtChar(is_whitespace)
NameIteration == parser.pc \in {"bare_name", "brace_name"} /\ AtChar(IsNameChar)

\* C23: the cursor never exceeds the length of the input and never
\* decreases; an iteration of the main loop consumes at least one character,
\* an iteration of a whitespace loop or of the name loop exactly one, staying
\* in its loop; and parse returns, a result or an error, for every input.
C23_Terminates ==
    /\ [](parser.cursor \in 0..Len(parser.input))
    /\ [][parser'.cursor >= parser.cursor]_vars
    /\ [][MainIteration => parser'.cursor >= parser.cursor + 1]_vars
    /\ [][(WhitespaceIteration \/ NameIteration) =>
            /\ parser'.cursor = parser.cursor + 1
            /\ parser'.pc = parser.pc]_vars
    /\ <>(/\ parser.pc \in {"done", "failed"}
          /\ parser.ret # None
          /\ template # None)

\* "${ a }" was parsed to its end through both whitespace loops and the name
\* loop
C23_Witness ==
    /\ parser.input = <<Dollar, LBrace, 32, 97, 32, RBrace>>
    /\ parser.pc = "done"
    /\ parser.cursor = 6
    /\ parser.ret = Some(Ok(<<Variable(<<97>>)>>))

(***************************************************************************)
(* The form after its serialization, checked under SpecForm.               *)
(***************************************************************************)
\* Form::bytes has been called on the form
Serialized == body # None

\* C24 as stated: once Form::bytes has been called on a form, no later
\* operation changes its field sequence or its boundary.
C24_ReadOnlyAfterBytes ==
    [][Serialized => (fields' = fields /\ boundary' = boundary)]_vars

\* C24, amended: Form::bytes does not make the form read-only. On a
\* serialized form Form::bytes and Form::content_type leave the fields as
\* they are, while a Form::text or Form::file call still appends one field
\* after the fields there were; a Form::bytes call after it returns the
\* blocks of all the fields the form has then. The boundary never changes.
C24_AppendOnlyAfterBytes ==
    /\ [](boundary = Form_new.boundary)
    /\ [][Serialized =>
            /\ boundary' = boundary
            /\ (FormBytes \/ FormContentType) => fields' = fields
            /\ (FormText \/ FormFile) =>
                  /\ Len(fields') = Len(fields) + 1
                  /\ SubSeq(fields', 1, Len(fields)) = fields
                  /\ fields' # fields
                  /\ body' = body]_vars
    /\ [][(Serialized /\ FormBytes) =>
            body' = Some(Blocks(fields, as_bytes(boundary), Len(fields))
                            \o Dashes \o as_bytes(boundary) \o Dashes)]_vars

\* a form was serialized with one field and has a second, text field since
C24_Witness ==
    /\ Serialized
    /\ body_fields = 1
    /\ Len(fields) = 2
    /\ fields[2].key.file_name = None
    /\ body[1] = Blocks(fields, as_bytes(boundary), 1)
                    \o Dashes \o as_bytes(boundary) \o Dashes

====
